---- MODULE Spec2Model ----
(***************************************************************************)
(* The prism program (programs/prism/src/lib.rs): root identities, the     *)
(* context identities derived from them, spending limits, revocation and   *)
(* commitment verification.  One action per instruction; an action is the  *)
(* whole instruction: the account validation of its #[derive(Accounts)]    *)
(* struct followed by the handler.  An instruction that ends in an error   *)
(* leaves nothing behind (the host reverts it); the outcome of the latest  *)
(* instruction is kept in `last` and its log in `emitted`.                 *)
(***************************************************************************)
EXTENDS Integers, Naturals, Sequences, FiniteSets, TLC

VARIABLES
    roots,      \* RootIdentity accounts, keyed by address
    contexts,   \* ContextIdentity accounts, keyed by address
    clock,      \* Clock::get()?.unix_timestamp
    emitted,    \* the events emitted by the latest instruction
    last,       \* the latest instruction: its name, its result, its return value
    prev,       \* the accounts as the latest instruction found them
    nspend,     \* number of committed record_spending instructions (bounds the model)
    created,    \* per context address: how many creations went through there, and
                \* the commitment the latest of them was given
    pending     \* per client, the create transaction it has built and not yet sent

vars == <<roots, contexts, clock, emitted, last, prev, nspend, created, pending>>

----------------------------------------------------------------------------
(* Bounds of the model *)

MaxContexts == 2
MaxSpends == 2
MaxClock == 1

(* Program constants *)

U16_MAX == 65535
MAX_PRIVACY_LEVEL == 4
MAX_CONTEXT_TYPE == 5

----------------------------------------------------------------------------
(* u64: four 16-bit limbs, most significant first (TLC's integers are      *)
(* narrower than 64 bits).                                                  *)

LimbBase == 2^16

U64FromNat(n) == <<0, 0, n \div LimbBase, n % LimbBase>>

U64_MAX == <<LimbBase - 1, LimbBase - 1, LimbBase - 1, LimbBase - 1>>

U64_ZERO == U64FromNat(0)

\* 2^63
U64_HALF == <<LimbBase \div 2, 0, 0, 0>>

\* a <= b on u64
U64Le(a, b) ==
    \/ a = b
    \/ \E i \in 1..4 : a[i] < b[i] /\ \A j \in 1..(i - 1) : a[j] = b[j]

\* Option<T>: None, Some(x)
NoValue == <<"None">>

Some(x) == <<"Some", x>>

unwrap(option) == option[2]

wrapping_add_u64(a, b) ==
    LET s4 == a[4] + b[4]
        s3 == a[3] + b[3] + (s4 \div LimbBase)
        s2 == a[2] + b[2] + (s3 \div LimbBase)
        s1 == a[1] + b[1] + (s2 \div LimbBase)
    IN  Some(<<s1 % LimbBase, s2 % LimbBase, s3 % LimbBase, s4 % LimbBase>>)

\* u64::checked_add: None when the sum does not fit 64 bits
checked_add_u64(a, b) ==
    LET s4 == a[4] + b[4]
        s3 == a[3] + b[3] + (s4 \div LimbBase)
        s2 == a[2] + b[2] + (s3 \div LimbBase)
        s1 == a[1] + b[1] + (s2 \div LimbBase)
    IN  IF s1 \div LimbBase > 0
        THEN NoValue
        ELSE Some(<<s1 % LimbBase, s2 % LimbBase, s3 % LimbBase, s4 % LimbBase>>)

wrapping_add_u16(n) == Some((n + 1) % (U16_MAX + 1))

\* u16::checked_add(1): None at the top of the 16-bit range
checked_add_u16(n) == IF n + 1 > U16_MAX THEN NoValue ELSE Some(n + 1)

----------------------------------------------------------------------------
(* Keys, derived addresses, hashes *)

Users == {"u1", "u2"}

\* Pubkey::default()
ZeroPubkey == <<"zero">>

\* the address derived from seeds [b"root", user.key()]
RootPda(user) == <<"root", user>>

\* the address derived from seeds [b"context", root.key(), index.to_le_bytes()]
ContextPda(root, index) == <<"context", root, index>>

\* the bump that goes with a derived address
BumpOf(address) == IF address[1] = "root" THEN 255 ELSE 254

\* hash(&root_pubkey.to_bytes()): one-way, deterministic, collision free
hash_root_identity(root_pubkey) == <<"sha256", root_pubkey>>

RootAddresses == {RootPda(u) : u \in Users}


----------------------------------------------------------------------------
(* What the callers of the instructions may supply *)

PrivacyLevels == {2, MAX_PRIVACY_LEVEL, MAX_PRIVACY_LEVEL + 1}

ContextTypes == {MAX_CONTEXT_TYPE, MAX_CONTEXT_TYPE + 1}

Limits == {U64_HALF}

Amounts == {U64FromNat(600), U64_HALF, U64_MAX}

CreateCommitments == {"k1"}

Commitments == {"k1", "k2"}

RootHashes == {hash_root_identity(r) : r \in RootAddresses}

\* the address the next context of a root is created at
NextAddress(root) ==
    ContextPda(root, IF root \in DOMAIN roots THEN roots[root].context_count ELSE 0)

\* the context addresses a caller may present: the existing accounts (for a
\* creation, an address derived from a counter read earlier) and the next
\* address of every root
ContextAddresses == DOMAIN contexts \cup {NextAddress(r) : r \in RootAddresses}

BindingKeys == DOMAIN contexts \cup {ZeroPubkey}

Clients == {"a", "b"}

NoTx == [user |-> "none", root |-> ZeroPubkey, context |-> ZeroPubkey]

----------------------------------------------------------------------------
(* The accounts of the program as one value: the instructions read and     *)
(* write the ledger they are given.                                         *)

Ledger == [roots |-> roots, contexts |-> contexts]

----------------------------------------------------------------------------
(* Account validation: the #[derive(Accounts)] structs.  Each yields "Ok"  *)
(* or the error of the first check that fails.  `init` accounts are        *)
(* checked and created while the fields are read, the other constraints    *)
(* afterwards, field by field, seeds before `constraint =`.                *)

\* mutant: init_if_needed, an existing account is accepted
CreateRootIdentityIfNeeded(user, root) ==
    IF root # RootPda(user) THEN "ConstraintSeeds"
    ELSE "Ok"

CreateRootIdentity(user, root) ==
    IF root # RootPda(user) THEN "ConstraintSeeds"
    ELSE IF root \in DOMAIN roots THEN "AccountAlreadyInUse"
    ELSE "Ok"

\* mutant: the address is not tied to the root's counter and an existing
\* account is accepted
CreateContextAnyAddress(ledger, user, root, context) ==
    IF root \notin DOMAIN ledger.roots THEN "AccountNotInitialized"
    ELSE IF root # RootPda(user) THEN "ConstraintSeeds"
    ELSE IF ledger.roots[root].owner # user THEN "Unauthorized"
    ELSE "Ok"

CreateContextIn(ledger, user, root, context) ==
    IF root \notin DOMAIN ledger.roots THEN "AccountNotInitialized"
    ELSE IF context # ContextPda(root, ledger.roots[root].context_count) THEN "ConstraintSeeds"
    ELSE IF context \in DOMAIN ledger.contexts THEN "AccountAlreadyInUse"
    ELSE IF root # RootPda(user) THEN "ConstraintSeeds"
    ELSE IF ledger.roots[root].owner # user THEN "Unauthorized"
    ELSE "Ok"

CreateContext(user, root, context) == CreateContextIn(Ledger, user, root, context)

RevokeContextIn(ledger, user, root, context) ==
    IF root \notin DOMAIN ledger.roots THEN "AccountNotInitialized"
    ELSE IF context \notin DOMAIN ledger.contexts THEN "AccountNotInitialized"
    ELSE IF root # RootPda(user) THEN "ConstraintSeeds"
    ELSE IF ledger.roots[root].owner # user THEN "Unauthorized"
    ELSE IF context # ContextPda(root, ledger.contexts[context].context_index) THEN "ConstraintSeeds"
    ELSE IF ledger.contexts[context].root_identity # root THEN "ContextMismatch"
    ELSE "Ok"

RevokeContext(user, root, context) == RevokeContextIn(Ledger, user, root, context)

\* mutant: the root presented need not be the signer's
VerifyCommitmentAnyCaller(ledger, user, root, context) ==
    IF context \notin DOMAIN ledger.contexts THEN "AccountNotInitialized"
    ELSE IF root \notin DOMAIN ledger.roots THEN "AccountNotInitialized"
    ELSE IF context # ContextPda(root, ledger.contexts[context].context_index) THEN "ConstraintSeeds"
    ELSE "Ok"

VerifyCommitmentIn(ledger, user, root, context) ==
    IF context \notin DOMAIN ledger.contexts THEN "AccountNotInitialized"
    ELSE IF root \notin DOMAIN ledger.roots THEN "AccountNotInitialized"
    ELSE IF context # ContextPda(root, ledger.contexts[context].context_index) THEN "ConstraintSeeds"
    ELSE IF root # RootPda(user) THEN "ConstraintSeeds"
    ELSE "Ok"

VerifyCommitment(user, root, context) == VerifyCommitmentIn(Ledger, user, root, context)

CheckSpendingLimitIn(ledger, user, root, context) ==
    IF context \notin DOMAIN ledger.contexts THEN "AccountNotInitialized"
    ELSE IF root \notin DOMAIN ledger.roots THEN "AccountNotInitialized"
    ELSE IF context # ContextPda(root, ledger.contexts[context].context_index) THEN "ConstraintSeeds"
    ELSE IF root # RootPda(user) THEN "ConstraintSeeds"
    ELSE "Ok"

CheckSpendingLimit(user, root, context) == CheckSpendingLimitIn(Ledger, user, root, context)

RecordSpendingIn(ledger, user, root, context) ==
    IF root \notin DOMAIN ledger.roots THEN "AccountNotInitialized"
    ELSE IF context \notin DOMAIN ledger.contexts THEN "AccountNotInitialized"
    ELSE IF root # RootPda(user) THEN "ConstraintSeeds"
    ELSE IF ledger.roots[root].owner # user THEN "Unauthorized"
    ELSE IF context # ContextPda(root, ledger.contexts[context].context_index) THEN "ConstraintSeeds"
    ELSE IF ledger.contexts[context].root_identity # root THEN "ContextMismatch"
    ELSE "Ok"

RecordSpending(user, root, context) == RecordSpendingIn(Ledger, user, root, context)

\* mutant: the root is not tied to the signer
UpdatePrivacyLevelAnySigner(user, root) ==
    IF root \notin DOMAIN roots THEN "AccountNotInitialized"
    ELSE "Ok"

UpdatePrivacyLevel(user, root) ==
    IF root \notin DOMAIN roots THEN "AccountNotInitialized"
    ELSE IF root # RootPda(user) THEN "ConstraintSeeds"
    ELSE IF roots[root].owner # user THEN "Unauthorized"
    ELSE "Ok"

----------------------------------------------------------------------------
(* The handlers.  X_result is the outcome of instruction X on given inputs *)
(* ("Ok" or the error that ends it); the action X is the whole             *)
(* instruction: the writes and the log of a call that went through, or     *)
(* Rejected for a call that ended in an error.                              *)

Outcome(op, result, ret) == [op |-> op, result |-> result, ret |-> ret]

\* history: what the instruction being executed was given
Snapshot == prev' = [roots |-> roots, contexts |-> contexts]

\* mutant: an instruction that ends in an error keeps the log it wrote
RejectedKeepsLog(op, error) ==
    /\ UNCHANGED <<roots, contexts, nspend, created, clock>>
    /\ emitted' = <<[event |-> op]>>
    /\ last' = Outcome(op, error, FALSE)
    /\ Snapshot

\* an instruction that ended in an error (Err(..) or a panic): nothing it
\* wrote and nothing it logged is committed
Rejected(op, error) ==
    /\ UNCHANGED <<roots, contexts, nspend, created, clock>>
    /\ emitted' = <<>>
    /\ last' = Outcome(op, error, FALSE)
    /\ Snapshot

\* an instruction that went through without writing or logging anything
Answered(op, ret) ==
    /\ UNCHANGED <<roots, contexts, nspend, created, clock>>
    /\ emitted' = <<>>
    /\ last' = Outcome(op, "Ok", ret)
    /\ Snapshot

create_root_identity_result(user, root, privacy_level) ==
    IF CreateRootIdentity(user, root) # "Ok" THEN CreateRootIdentity(user, root)
    ELSE IF privacy_level > MAX_PRIVACY_LEVEL THEN "InvalidPrivacyLevel"
    ELSE "Ok"

new_root_identity(user, root, privacy_level) ==
    [owner |-> user,
     created_at |-> clock,
     privacy_level |-> privacy_level,
     context_count |-> 0,
     bump |-> BumpOf(root)]

create_root_identity(user, root, privacy_level) ==
    LET result == create_root_identity_result(user, root, privacy_level) IN
    /\ IF result = "Ok"
       THEN /\ roots' = [a \in DOMAIN roots \cup {root} |->
                            IF a = root
                            THEN new_root_identity(user, root, privacy_level)
                            ELSE roots[a]]
            /\ emitted' = <<[event |-> "RootIdentityCreated",
                             owner |-> user,
                             privacy_level |-> privacy_level,
                             timestamp |-> clock]>>
            /\ last' = Outcome("create_root_identity", "Ok", FALSE)
            /\ Snapshot
            /\ UNCHANGED <<contexts, nspend, created, clock>>
       ELSE Rejected("create_root_identity", result)
    /\ UNCHANGED pending

\* mutant: the counter skips a value
skipping_context_count(count) == Some(count + 2)

\* mutant: the counter wraps at the top of its range
wrapping_context_count(count) == wrapping_add_u16(count)

\* root.context_count.checked_add(1)
next_context_count(count) == checked_add_u16(count)

\* mutant: a root below privacy level Public creates no Public context
create_context_result_by_privacy(ledger, user, root, context, context_type) ==
    IF CreateContextIn(ledger, user, root, context) # "Ok"
    THEN CreateContextIn(ledger, user, root, context)
    ELSE IF context_type > MAX_CONTEXT_TYPE THEN "InvalidContextType"
    ELSE IF /\ context_type = MAX_CONTEXT_TYPE
            /\ ledger.roots[root].privacy_level < MAX_PRIVACY_LEVEL
    THEN "InvalidContextType"
    ELSE IF next_context_count(ledger.roots[root].context_count) = NoValue THEN "Panic"
    ELSE "Ok"

create_context_result_in(ledger, user, root, context, context_type) ==
    IF CreateContextIn(ledger, user, root, context) # "Ok" THEN CreateContextIn(ledger, user, root, context)
    ELSE IF context_type > MAX_CONTEXT_TYPE THEN "InvalidContextType"
    ELSE IF next_context_count(ledger.roots[root].context_count) = NoValue THEN "Panic"
    ELSE "Ok"

create_context_result(user, root, context, context_type) == create_context_result_in(Ledger, user, root, context, context_type)

new_context_in(ledger, root, context, context_type, max_per_transaction) ==
    [root_identity |-> root,
     root_identity_hash |-> NoValue,
     encryption_commitment |-> NoValue,
     context_type |-> context_type,
     created_at |-> clock,
     max_per_transaction |-> max_per_transaction,
     total_spent |-> U64_ZERO,
     revoked |-> FALSE,
     context_index |-> ledger.roots[root].context_count,
     bump |-> BumpOf(context)]

new_context(root, context, context_type, max_per_transaction) == new_context_in(Ledger, root, context, context_type, max_per_transaction)

ContextCreated(root, context, context_type, max_per_transaction) ==
    [event |-> "ContextCreated",
     root_identity |-> root,
     context_identity |-> context,
     context_type |-> context_type,
     max_per_transaction |-> max_per_transaction,
     context_index |-> roots[root].context_count,
     timestamp |-> clock]

\* the writes of a creation that went through: the new account, the root's counter
create_context_write(ledger, root, context, account) ==
    [roots |-> [ledger.roots EXCEPT
                    ![root].context_count = unwrap(next_context_count(@))],
     contexts |-> [a \in DOMAIN ledger.contexts \cup {context} |->
                      IF a = context THEN account ELSE ledger.contexts[a]]]

CommitContext(root, context, account, commitment) ==
    /\ contexts' = create_context_write(Ledger, root, context, account).contexts
    /\ roots' = create_context_write(Ledger, root, context, account).roots
    /\ created' = [a \in DOMAIN created \cup {context} |->
                        IF a = context
                        THEN [times |-> 1 + (IF a \in DOMAIN created
                                             THEN created[a].times ELSE 0),
                              commitment |-> commitment]
                        ELSE created[a]]
    /\ UNCHANGED <<nspend, clock>>

\* the ledger after create_context
create_context_after(ledger, user, root, context, context_type, max_per_transaction) ==
    IF create_context_result_in(ledger, user, root, context, context_type) = "Ok"
    THEN create_context_write(ledger, root, context,
             new_context_in(ledger, root, context, context_type, max_per_transaction))
    ELSE ledger

create_context(user, root, context, context_type, max_per_transaction) ==
    LET result == create_context_result(user, root, context, context_type) IN
    /\ result = "Ok" => Cardinality(DOMAIN contexts) < MaxContexts
    /\ IF result = "Ok"
       THEN /\ CommitContext(root, context,
                    new_context(root, context, context_type, max_per_transaction),
                    NoValue)
            /\ emitted' = <<ContextCreated(root, context, context_type,
                                           max_per_transaction)>>
            /\ last' = Outcome("create_context", "Ok", FALSE)
            /\ Snapshot
       ELSE Rejected("create_context", result)

\* mutant: the supplied hash is stored without being compared
create_context_encrypted_result_unchecked(user, root, context, context_type, root_identity_hash) ==
    IF CreateContext(user, root, context) # "Ok" THEN CreateContext(user, root, context)
    ELSE IF context_type > MAX_CONTEXT_TYPE THEN "InvalidContextType"
    ELSE IF next_context_count(roots[root].context_count) = NoValue THEN "Panic"
    ELSE "Ok"

create_context_encrypted_result_in(ledger, user, root, context, context_type, root_identity_hash) ==
    IF CreateContextIn(ledger, user, root, context) # "Ok" THEN CreateContextIn(ledger, user, root, context)
    ELSE IF context_type > MAX_CONTEXT_TYPE THEN "InvalidContextType"
    ELSE IF hash_root_identity(root) # root_identity_hash THEN "InvalidRootHash"
    ELSE IF next_context_count(ledger.roots[root].context_count) = NoValue THEN "Panic"
    ELSE "Ok"

create_context_encrypted_result(user, root, context, context_type, root_identity_hash) == create_context_encrypted_result_in(Ledger, user, root, context, context_type, root_identity_hash)

\* mutant: the address of the root is stored next to its hash
new_context_encrypted_with_root(root, context, context_type, max_per_transaction, root_identity_hash, encryption_commitment) ==
    [root_identity |-> root,
     root_identity_hash |-> Some(root_identity_hash),
     encryption_commitment |-> Some(encryption_commitment),
     context_type |-> context_type,
     created_at |-> clock,
     max_per_transaction |-> max_per_transaction,
     total_spent |-> U64_ZERO,
     revoked |-> FALSE,
     context_index |-> roots[root].context_count,
     bump |-> BumpOf(context)]

new_context_encrypted_in(ledger, root, context, context_type, max_per_transaction, root_identity_hash, encryption_commitment) ==
    [root_identity |-> ZeroPubkey,
     root_identity_hash |-> Some(root_identity_hash),
     encryption_commitment |-> Some(encryption_commitment),
     context_type |-> context_type,
     created_at |-> clock,
     max_per_transaction |-> max_per_transaction,
     total_spent |-> U64_ZERO,
     revoked |-> FALSE,
     context_index |-> ledger.roots[root].context_count,
     bump |-> BumpOf(context)]

new_context_encrypted(root, context, context_type, max_per_transaction, root_identity_hash, encryption_commitment) == new_context_encrypted_in(Ledger, root, context, context_type, max_per_transaction, root_identity_hash, encryption_commitment)

\* the ledger after create_context_encrypted
create_context_encrypted_after(ledger, user, root, context, context_type, max_per_transaction, root_identity_hash, encryption_commitment) ==
    IF create_context_encrypted_result_in(ledger, user, root, context, context_type,
                                          root_identity_hash) = "Ok"
    THEN create_context_write(ledger, root, context,
             new_context_encrypted_in(ledger, root, context, context_type,
                 max_per_transaction, root_identity_hash, encryption_commitment))
    ELSE ledger

create_context_encrypted(user, root, context, context_type, max_per_transaction, root_identity_hash, encryption_commitment) ==
    LET result == create_context_encrypted_result(user, root, context, context_type,
                                                  root_identity_hash) IN
    /\ result = "Ok" => Cardinality(DOMAIN contexts) < MaxContexts
    /\ IF result = "Ok"
       THEN /\ CommitContext(root, context,
                    new_context_encrypted(root, context, context_type,
                        max_per_transaction, root_identity_hash, encryption_commitment),
                    Some(encryption_commitment))
            /\ emitted' = <<ContextCreated(root, context, context_type,
                                           max_per_transaction)>>
            /\ last' = Outcome("create_context_encrypted", "Ok", FALSE)
            /\ Snapshot
       ELSE Rejected("create_context_encrypted", result)

\* mutant: the binding key is not compared
verify_commitment_value_unbound(context, commitment, binding_key) ==
    IF contexts[context].encryption_commitment # NoValue
    THEN contexts[context].encryption_commitment = Some(commitment)
    ELSE FALSE

\* Ok(is_valid) / Ok(false)
verify_commitment_value_in(ledger, context, commitment, binding_key) ==
    IF ledger.contexts[context].encryption_commitment # NoValue
    THEN /\ ledger.contexts[context].encryption_commitment = Some(commitment)
         /\ binding_key = context
    ELSE FALSE

verify_commitment_value(context, commitment, binding_key) == verify_commitment_value_in(Ledger, context, commitment, binding_key)

verify_commitment_result_in(ledger, user, root, context) == VerifyCommitmentIn(ledger, user, root, context)

verify_commitment_result(user, root, context) == verify_commitment_result_in(Ledger, user, root, context)

verify_commitment(user, root, context, commitment, binding_key) ==
    LET result == verify_commitment_result(user, root, context) IN
    /\ IF result = "Ok"
       THEN Answered("verify_commitment",
                     verify_commitment_value(context, commitment, binding_key))
       ELSE Rejected("verify_commitment", result)
    /\ UNCHANGED pending

revoke_context_result_in(ledger, user, root, context) ==
    IF RevokeContextIn(ledger, user, root, context) # "Ok" THEN RevokeContextIn(ledger, user, root, context)
    ELSE IF ledger.contexts[context].revoked THEN "ContextAlreadyRevoked"
    ELSE "Ok"

revoke_context_result(user, root, context) == revoke_context_result_in(Ledger, user, root, context)

\* mutant: the revocation burns every context of the root
revoke_context_write_all(ledger, context) ==
    [ledger EXCEPT !.contexts =
        [a \in DOMAIN ledger.contexts |->
            IF a[2] = context[2]
            THEN [ledger.contexts[a] EXCEPT !.revoked = TRUE]
            ELSE ledger.contexts[a]]]

\* context.revoked = true
revoke_context_write(ledger, context) ==
    [ledger EXCEPT !.contexts[context].revoked = TRUE]

\* the ledger after revoke_context
revoke_context_after(ledger, user, root, context) ==
    IF revoke_context_result_in(ledger, user, root, context) = "Ok"
    THEN revoke_context_write(ledger, context)
    ELSE ledger

\* mutant: the revocation clears the running total
revoke_context_clearing_total(user, root, context) ==
    LET result == revoke_context_result(user, root, context) IN
    /\ IF result = "Ok"
       THEN /\ contexts' = [contexts EXCEPT ![context].revoked = TRUE,
                                            ![context].total_spent = U64_ZERO]
            /\ emitted' = <<[event |-> "ContextRevoked",
                             root_identity |-> contexts[context].root_identity,
                             context_identity |-> context,
                             context_type |-> contexts[context].context_type,
                             total_spent |-> contexts[context].total_spent,
                             timestamp |-> clock]>>
            /\ last' = Outcome("revoke_context", "Ok", FALSE)
            /\ Snapshot
            /\ UNCHANGED <<roots, nspend, created, clock>>
       ELSE Rejected("revoke_context", result)
    /\ UNCHANGED pending

revoke_context(user, root, context) ==
    LET result == revoke_context_result(user, root, context) IN
    /\ IF result = "Ok"
       THEN /\ contexts' = revoke_context_write(Ledger, context).contexts
            /\ emitted' = <<[event |-> "ContextRevoked",
                             root_identity |-> contexts[context].root_identity,
                             context_identity |-> context,
                             context_type |-> contexts[context].context_type,
                             total_spent |-> contexts[context].total_spent,
                             timestamp |-> clock]>>
            /\ last' = Outcome("revoke_context", "Ok", FALSE)
            /\ Snapshot
            /\ UNCHANGED <<roots, nspend, created, clock>>
       ELSE Rejected("revoke_context", result)
    /\ UNCHANGED pending

\* mutant: the amount is added to the running total before it is compared
check_spending_limit_result_cumulative(user, root, context, amount) ==
    IF CheckSpendingLimit(user, root, context) # "Ok"
    THEN CheckSpendingLimit(user, root, context)
    ELSE IF contexts[context].revoked THEN "ContextRevoked"
    ELSE IF \/ checked_add_u64(contexts[context].total_spent, amount) = NoValue
            \/ ~U64Le(unwrap(checked_add_u64(contexts[context].total_spent, amount)),
                      contexts[context].max_per_transaction)
    THEN "ExceedsTransactionLimit"
    ELSE "Ok"

check_spending_limit_result_in(ledger, user, root, context, amount) ==
    IF CheckSpendingLimitIn(ledger, user, root, context) # "Ok"
    THEN CheckSpendingLimitIn(ledger, user, root, context)
    ELSE IF ledger.contexts[context].revoked THEN "ContextRevoked"
    ELSE IF ~U64Le(amount, ledger.contexts[context].max_per_transaction)
    THEN "ExceedsTransactionLimit"
    ELSE "Ok"

check_spending_limit_result(user, root, context, amount) == check_spending_limit_result_in(Ledger, user, root, context, amount)

check_spending_limit(user, root, context, amount) ==
    LET result == check_spending_limit_result(user, root, context, amount) IN
    /\ IF result = "Ok"
       THEN Answered("check_spending_limit", FALSE)
       ELSE Rejected("check_spending_limit", result)
    /\ UNCHANGED pending

\* context.total_spent.checked_add(amount)
new_total_spent(total_spent, amount) == checked_add_u64(total_spent, amount)

\* mutant: the limit is compared with the running total
spending_allowed_cumulative(account, amount) ==
    IF account.revoked THEN "ContextRevoked"
    ELSE IF \/ checked_add_u64(account.total_spent, amount) = NoValue
            \/ ~U64Le(unwrap(checked_add_u64(account.total_spent, amount)),
                      account.max_per_transaction)
    THEN "ExceedsTransactionLimit"
    ELSE "Ok"

\* mutant: the limit is checked before the revocation
spending_allowed_limit_first(account, amount) ==
    IF ~U64Le(amount, account.max_per_transaction) THEN "ExceedsTransactionLimit"
    ELSE IF account.revoked THEN "ContextRevoked"
    ELSE "Ok"

\* the two require! of record_spending, on an account the validation accepted
spending_allowed(account, amount) ==
    IF account.revoked THEN "ContextRevoked"
    ELSE IF ~U64Le(amount, account.max_per_transaction) THEN "ExceedsTransactionLimit"
    ELSE "Ok"

record_spending_result_in(ledger, user, root, context, amount) ==
    IF RecordSpendingIn(ledger, user, root, context) # "Ok" THEN RecordSpendingIn(ledger, user, root, context)
    ELSE IF spending_allowed(ledger.contexts[context], amount) # "Ok"
    THEN spending_allowed(ledger.contexts[context], amount)
    ELSE IF new_total_spent(ledger.contexts[context].total_spent, amount) = NoValue
    THEN "SpendingOverflow"
    ELSE "Ok"

record_spending_result(user, root, context, amount) == record_spending_result_in(Ledger, user, root, context, amount)

\* context.total_spent = context.total_spent.checked_add(amount)?
record_spending_write(ledger, context, amount) ==
    [ledger EXCEPT !.contexts[context].total_spent = unwrap(new_total_spent(@, amount))]

\* the ledger after record_spending
record_spending_after(ledger, user, root, context, amount) ==
    IF record_spending_result_in(ledger, user, root, context, amount) = "Ok"
    THEN record_spending_write(ledger, context, amount)
    ELSE ledger

record_spending(user, root, context, amount) ==
    LET result == record_spending_result(user, root, context, amount) IN
    /\ result = "Ok" => nspend < MaxSpends
    /\ IF result = "Ok"
       THEN /\ contexts' = record_spending_write(Ledger, context, amount).contexts
            /\ emitted' = <<[event |-> "SpendingRecorded",
                             context_identity |-> context,
                             amount |-> amount,
                             total_spent |-> unwrap(new_total_spent(
                                 contexts[context].total_spent, amount)),
                             timestamp |-> clock]>>
            /\ nspend' = nspend + 1
            /\ last' = Outcome("record_spending", "Ok", FALSE)
            /\ Snapshot
            /\ UNCHANGED <<roots, created, clock>>
       ELSE Rejected("record_spending", result)
    /\ UNCHANGED pending

\* mutant: the new level is stored without the range check
update_privacy_level_result_unchecked(user, root, new_privacy_level) ==
    UpdatePrivacyLevel(user, root)

update_privacy_level_result(user, root, new_privacy_level) ==
    IF UpdatePrivacyLevel(user, root) # "Ok" THEN UpdatePrivacyLevel(user, root)
    ELSE IF new_privacy_level > MAX_PRIVACY_LEVEL THEN "InvalidPrivacyLevel"
    ELSE "Ok"

update_privacy_level(user, root, new_privacy_level) ==
    LET result == update_privacy_level_result(user, root, new_privacy_level) IN
    /\ IF result = "Ok"
       THEN /\ roots' = [roots EXCEPT ![root].privacy_level = new_privacy_level]
            /\ emitted' = <<[event |-> "PrivacyLevelUpdated",
                             root_identity |-> root,
                             old_level |-> roots[root].privacy_level,
                             new_level |-> new_privacy_level,
                             timestamp |-> clock]>>
            /\ last' = Outcome("update_privacy_level", "Ok", FALSE)
            /\ Snapshot
            /\ UNCHANGED <<contexts, nspend, created, clock>>
       ELSE Rejected("update_privacy_level", result)
    /\ UNCHANGED pending

\* the host's clock advances between instructions
Tick ==
    /\ clock < MaxClock
    /\ clock' = clock + 1
    /\ UNCHANGED <<roots, contexts, emitted, last, prev, nspend, created, pending>>

----------------------------------------------------------------------------
(* The ledger from its empty state.  Calls that end in the same error      *)
(* leave the same state behind, whatever their inputs: Next takes the      *)
(* calls that go through input by input and the others error by error.     *)

EmptyMap == [a \in {} |-> 0]

Init ==
    /\ roots = EmptyMap
    /\ contexts = EmptyMap
    /\ clock = 0
    /\ emitted = <<>>
    /\ last = Outcome("none", "Ok", FALSE)
    /\ prev = [roots |-> EmptyMap, contexts |-> EmptyMap]
    /\ nspend = 0
    /\ created = EmptyMap
    /\ pending = [cl \in Clients |-> NoTx]

CreateRootIdentityCalls ==
    \/ \E u \in Users, r \in RootAddresses, p \in PrivacyLevels :
          /\ create_root_identity_result(u, r, p) = "Ok"
          /\ create_root_identity(u, r, p)
    \/ \E e \in {create_root_identity_result(u, r, p) :
                    u \in Users, r \in RootAddresses, p \in PrivacyLevels} \ {"Ok"} :
          /\ Rejected("create_root_identity", e)
          /\ UNCHANGED pending

CreateContextCalls ==
    \/ \E u \in Users, r \in RootAddresses, c \in ContextAddresses,
          t \in ContextTypes, m \in Limits :
          /\ create_context_result(u, r, c, t) = "Ok"
          /\ create_context(u, r, c, t, m)
          /\ UNCHANGED pending
    \/ \E e \in {create_context_result(u, r, c, t) :
                    u \in Users, r \in RootAddresses, c \in ContextAddresses,
                    t \in ContextTypes} \ {"Ok"} :
          /\ Rejected("create_context", e)
          /\ UNCHANGED pending

CreateContextEncryptedCalls ==
    \/ \E u \in Users, r \in RootAddresses, c \in ContextAddresses,
          t \in ContextTypes, m \in Limits, h \in RootHashes, k \in CreateCommitments :
          /\ create_context_encrypted_result(u, r, c, t, h) = "Ok"
          /\ create_context_encrypted(u, r, c, t, m, h, k)
          /\ UNCHANGED pending
    \/ \E e \in {create_context_encrypted_result(u, r, c, t, h) :
                    u \in Users, r \in RootAddresses, c \in ContextAddresses,
                    t \in ContextTypes, h \in RootHashes} \ {"Ok"} :
          /\ Rejected("create_context_encrypted", e)
          /\ UNCHANGED pending

\* the accounts verify_commitment and check_spending_limit accept
ReadableContexts ==
    {x \in Users \X RootAddresses \X ContextAddresses :
        VerifyCommitment(x[1], x[2], x[3]) = "Ok"}

VerifyCommitmentCalls ==
    \/ \E v \in {verify_commitment_value(x[3], k, b) :
                    x \in ReadableContexts, k \in Commitments, b \in BindingKeys} :
          /\ Answered("verify_commitment", v)
          /\ UNCHANGED pending
    \/ \E e \in {verify_commitment_result(u, r, c) :
                    u \in Users, r \in RootAddresses, c \in ContextAddresses} \ {"Ok"} :
          /\ Rejected("verify_commitment", e)
          /\ UNCHANGED pending

RevokeContextCalls ==
    \/ \E u \in Users, r \in RootAddresses, c \in ContextAddresses :
          /\ revoke_context_result(u, r, c) = "Ok"
          /\ revoke_context(u, r, c)
    \/ \E e \in {revoke_context_result(u, r, c) :
                    u \in Users, r \in RootAddresses, c \in ContextAddresses} \ {"Ok"} :
          /\ Rejected("revoke_context", e)
          /\ UNCHANGED pending

CheckSpendingLimitCalls ==
    \/ /\ "Ok" \in {check_spending_limit_result(u, r, c, a) :
                      u \in Users, r \in RootAddresses, c \in ContextAddresses,
                      a \in Amounts}
       /\ Answered("check_spending_limit", FALSE)
       /\ UNCHANGED pending
    \/ \E e \in {check_spending_limit_result(u, r, c, a) :
                    u \in Users, r \in RootAddresses, c \in ContextAddresses,
                    a \in Amounts} \ {"Ok"} :
          /\ Rejected("check_spending_limit", e)
          /\ UNCHANGED pending

RecordSpendingCalls ==
    \/ \E u \in Users, r \in RootAddresses, c \in ContextAddresses, a \in Amounts :
          /\ record_spending_result(u, r, c, a) = "Ok"
          /\ record_spending(u, r, c, a)
    \/ \E e \in {record_spending_result(u, r, c, a) :
                    u \in Users, r \in RootAddresses, c \in ContextAddresses,
                    a \in Amounts} \ {"Ok"} :
          /\ Rejected("record_spending", e)
          /\ UNCHANGED pending

UpdatePrivacyLevelCalls ==
    \/ \E u \in Users, r \in RootAddresses, p \in PrivacyLevels :
          /\ update_privacy_level_result(u, r, p) = "Ok"
          /\ update_privacy_level(u, r, p)
    \/ \E e \in {update_privacy_level_result(u, r, p) :
                    u \in Users, r \in RootAddresses, p \in PrivacyLevels} \ {"Ok"} :
          /\ Rejected("update_privacy_level", e)
          /\ UNCHANGED pending

Next ==
    \/ CreateRootIdentityCalls
    \/ CreateContextCalls
    \/ CreateContextEncryptedCalls
    \/ VerifyCommitmentCalls
    \/ RevokeContextCalls
    \/ CheckSpendingLimitCalls
    \/ RecordSpendingCalls
    \/ UpdatePrivacyLevelCalls

Spec == Init /\ [][Next]_vars

----------------------------------------------------------------------------
(* Vocabulary of the properties *)

\* the root a context address is derived from
RootOf(context) == context[2]

IsEncrypted(context) == contexts[context].root_identity_hash # NoValue

IsPlain(context) == contexts[context].root_identity = RootOf(context)

ContextsOf(root) == {c \in DOMAIN contexts : RootOf(c) = root}

\* 2^64 - 1 - a
U64Complement(a) == [i \in 1..4 |-> LimbBase - 1 - a[i]]

\* a - b on u64, for b <= a
U64Diff(a, b) ==
    LET d4 == a[4] - b[4]
        d3 == a[3] - b[3] - (IF d4 < 0 THEN 1 ELSE 0)
        d2 == a[2] - b[2] - (IF d3 < 0 THEN 1 ELSE 0)
        d1 == a[1] - b[1] - (IF d2 < 0 THEN 1 ELSE 0)
    IN  <<d1 % LimbBase, d2 % LimbBase, d3 % LimbBase, d4 % LimbBase>>

Did(op, result) == last.op = op /\ last.result = result

----------------------------------------------------------------------------
(* C1: for a plain context that is not revoked, record_spending by the     *)
(* owner of its root succeeds exactly when the amount of this call is at   *)
(* most max_per_transaction and total_spent + amount fits 64 bits; a       *)
(* committed call adds exactly amount to total_spent, a failed call leaves *)
(* total_spent as it was.                                                   *)

C1_SucceedsIff ==
    \A u \in Users : \A c \in ContextsOf(RootPda(u)) : \A a \in Amounts :
        (RootPda(u) \in DOMAIN roots /\ IsPlain(c) /\ ~contexts[c].revoked) =>
            /\ record_spending_result(u, RootPda(u), c, a) = "Ok"
                 <=> /\ U64Le(a, contexts[c].max_per_transaction)
                     /\ U64Le(a, U64Complement(contexts[c].total_spent))
            /\ record_spending_result(u, RootPda(u), c, a)
                 \in {"Ok", "ExceedsTransactionLimit", "SpendingOverflow"}

C1_Effect ==
    last.op = "record_spending" =>
        IF last.result = "Ok"
        THEN LET c == emitted[1].context_identity IN
             /\ c \in DOMAIN prev.contexts
             /\ U64Le(prev.contexts[c].total_spent, contexts[c].total_spent)
             /\ U64Diff(contexts[c].total_spent, prev.contexts[c].total_spent)
                    = emitted[1].amount
             /\ emitted[1].total_spent = contexts[c].total_spent
        ELSE \A c \in DOMAIN prev.contexts :
                contexts[c].total_spent = prev.contexts[c].total_spent

C1_RecordSpending == C1_SucceedsIff /\ C1_Effect

C1_Witness ==
    /\ Did("record_spending", "Ok")
    /\ \E c \in DOMAIN contexts :
          ~U64Le(contexts[c].total_spent, contexts[c].max_per_transaction)

----------------------------------------------------------------------------
(* C2: revocation is terminal.  A revoked context stays revoked through    *)
(* every instruction; on it every check_spending_limit and every           *)
(* record_spending ends in an error, ContextRevoked when the accounts are  *)
(* accepted, whatever the amount, and every revoke_context ends in an      *)
(* error, ContextAlreadyRevoked when the accounts are accepted.             *)

C2_StaysRevoked ==
    \A c \in DOMAIN prev.contexts :
        prev.contexts[c].revoked => c \in DOMAIN contexts /\ contexts[c].revoked

C2_NoFurtherUse ==
    \A c \in DOMAIN contexts : contexts[c].revoked =>
        /\ \A u \in Users, r \in RootAddresses :
              /\ revoke_context_result(u, r, c) # "Ok"
              /\ \A a \in Amounts :
                    /\ check_spending_limit_result(u, r, c, a) # "Ok"
                    /\ record_spending_result(u, r, c, a) # "Ok"
        /\ \A u \in Users : RootOf(c) = RootPda(u) =>
              /\ revoke_context_result(u, RootPda(u), c) = "ContextAlreadyRevoked"
              /\ \A a \in Amounts :
                    /\ check_spending_limit_result(u, RootPda(u), c, a) = "ContextRevoked"
                    /\ record_spending_result(u, RootPda(u), c, a) = "ContextRevoked"

C2_RevocationTerminal == C2_StaysRevoked /\ C2_NoFurtherUse

C2_Witness ==
    /\ Did("record_spending", "ContextRevoked")
    /\ \E c \in DOMAIN contexts : contexts[c].revoked

----------------------------------------------------------------------------
(* C3: under every root the contexts carry the indexes 0, 1, 2, ... in the *)
(* order of their creation, without gap or repeat: a creation that goes    *)
(* through assigns the root's context_count and adds one to it, nothing    *)
(* else changes context_count, and context_count is the number of          *)
(* creations that went through under the root.                              *)

RECURSIVE TimesCreated(_)
TimesCreated(cs) ==
    IF cs = {} THEN 0
    ELSE LET c == CHOOSE x \in cs : TRUE IN created[c].times + TimesCreated(cs \ {c})

C3_Counted ==
    /\ \A c \in DOMAIN contexts : RootOf(c) \in DOMAIN roots
    /\ DOMAIN created = DOMAIN contexts
    /\ \A r \in DOMAIN roots :
          /\ {contexts[c].context_index : c \in ContextsOf(r)}
                = 0..(roots[r].context_count - 1)
          /\ Cardinality(ContextsOf(r)) = roots[r].context_count
          /\ TimesCreated(ContextsOf(r)) = roots[r].context_count
          /\ \A c \in ContextsOf(r) : c = ContextPda(r, contexts[c].context_index)

C3_Step ==
    IF last.op \in {"create_context", "create_context_encrypted"} /\ last.result = "Ok"
    THEN LET c == emitted[1].context_identity
             r == RootOf(c)
         IN  /\ c \notin DOMAIN prev.contexts
             /\ contexts[c].context_index = prev.roots[r].context_count
             /\ emitted[1].context_index = prev.roots[r].context_count
             /\ roots[r].context_count = prev.roots[r].context_count + 1
             /\ \A q \in DOMAIN prev.roots \ {r} :
                   roots[q].context_count = prev.roots[q].context_count
    ELSE \A q \in DOMAIN prev.roots :
             roots[q].context_count = prev.roots[q].context_count

C3_SequentialIndexes == C3_Counted /\ C3_Step

C3_Witness ==
    /\ last.op \in {"create_context", "create_context_encrypted"}
    /\ last.result = "Ok"
    /\ \E r \in DOMAIN roots :
          /\ roots[r].context_count >= 2
          /\ emitted[1].context_index = roots[r].context_count - 1

----------------------------------------------------------------------------
(* C4: for a privacy_level in [0,4], create_root_identity by an owner goes *)
(* through when the owner has no root, writing context_count = 0, and ends *)
(* in the collision error when the owner has one, leaving every root as it *)
(* was; every root sits at the address derived from its owner, so an owner *)
(* has at most one.                                                         *)

ValidPrivacyLevels == {p \in PrivacyLevels : p <= MAX_PRIVACY_LEVEL}

C4_OncePerOwner ==
    \A u \in Users, p \in ValidPrivacyLevels :
        create_root_identity_result(u, RootPda(u), p)
            = IF RootPda(u) \in DOMAIN roots THEN "AccountAlreadyInUse" ELSE "Ok"

C4_Effect ==
    last.op = "create_root_identity" =>
        IF last.result = "Ok"
        THEN LET r == RootPda(emitted[1].owner) IN
             /\ r \notin DOMAIN prev.roots
             /\ DOMAIN roots = DOMAIN prev.roots \cup {r}
             /\ roots[r].owner = emitted[1].owner
             /\ roots[r].context_count = 0
             /\ roots[r].privacy_level = emitted[1].privacy_level
             /\ \A q \in DOMAIN prev.roots : roots[q] = prev.roots[q]
        ELSE roots = prev.roots

C4_OneRootPerOwner ==
    /\ \A r \in DOMAIN roots : r = RootPda(roots[r].owner)
    /\ \A r, q \in DOMAIN roots : roots[r].owner = roots[q].owner => r = q

C4_CreateRootOnce == C4_OncePerOwner /\ C4_Effect /\ C4_OneRootPerOwner

C4_Witness ==
    /\ Did("create_root_identity", "AccountAlreadyInUse")
    /\ \E r \in DOMAIN roots : roots[r].context_count > 0

----------------------------------------------------------------------------
(* C5: below the counter's ceiling, create_context_encrypted by the owner  *)
(* of the root, at the root's next address and with a valid context_type,  *)
(* goes through exactly when the supplied hash is the hash of the root's   *)
(* address, and ends in InvalidRootHash otherwise; a call that ended in    *)
(* InvalidRootHash created no context and left context_count as it was.     *)

ValidContextTypes == {t \in ContextTypes : t <= MAX_CONTEXT_TYPE}

C5_HashDecides ==
    \A u \in Users, t \in ValidContextTypes, h \in RootHashes :
        LET r == RootPda(u) IN
        (r \in DOMAIN roots /\ roots[r].context_count < U16_MAX) =>
            LET result == create_context_encrypted_result(u, r, NextAddress(r), t, h) IN
            /\ result = "Ok" <=> h = hash_root_identity(r)
            /\ result # "Ok" => result = "InvalidRootHash"

C5_NothingWritten ==
    Did("create_context_encrypted", "InvalidRootHash") =>
        /\ contexts = prev.contexts
        /\ roots = prev.roots

C5_EncryptedNeedsRootHash == C5_HashDecides /\ C5_NothingWritten

C5_Witness ==
    /\ Did("create_context_encrypted", "InvalidRootHash")
    /\ \E c \in DOMAIN contexts : IsEncrypted(c)

----------------------------------------------------------------------------
(* C6: verify_commitment answers true exactly when the context was created *)
(* with a commitment, the supplied commitment is that one and binding_key  *)
(* is the context's own address; for a context created without commitment *)
(* it answers false, and the call is not an error.                          *)

C6_Value ==
    \A c \in DOMAIN contexts, k \in Commitments, b \in BindingKeys :
        verify_commitment_value(c, k, b)
            <=> /\ created[c].commitment = Some(k)
                /\ b = c

C6_NotAnError ==
    \A u \in Users : \A c \in ContextsOf(RootPda(u)) :
        RootPda(u) \in DOMAIN roots =>
            verify_commitment_result(u, RootPda(u), c) = "Ok"

C6_Answer ==
    (last.op = "verify_commitment" /\ last.result = "Ok") =>
        last.ret \in {verify_commitment_value(c, k, b) :
                        c \in DOMAIN contexts, k \in Commitments, b \in BindingKeys}

C6_VerifyCommitment == C6_Value /\ C6_NotAnError /\ C6_Answer

C6_Witness ==
    /\ Did("verify_commitment", "Ok")
    /\ last.ret = TRUE
    /\ \E c \in DOMAIN contexts : IsPlain(c)

----------------------------------------------------------------------------
(* C7: a context created by create_context_encrypted and not revoked can   *)
(* be spent through and revoked by the owner of its root presenting the    *)
(* root.                                                                    *)

C7_EncryptedLifecycle ==
    \A u \in Users : \A c \in ContextsOf(RootPda(u)) :
        (RootPda(u) \in DOMAIN roots /\ IsEncrypted(c) /\ ~contexts[c].revoked) =>
            /\ revoke_context_result(u, RootPda(u), c) = "Ok"
            /\ record_spending_result(u, RootPda(u), c, U64FromNat(600)) = "Ok"

----------------------------------------------------------------------------
(* C10: an instruction that ended in an error left every root and every    *)
(* context as it found them and emitted nothing.                            *)

----------------------------------------------------------------------------
(* The ledger near the ceiling of a root's counter: u1's root after        *)
(* U16_MAX - 1 creations.  Of its contexts only the latest is kept in      *)
(* `contexts`; the earlier ones are left out of the model.                  *)

CeilRoot == RootPda("u1")

CeilContext == ContextPda(CeilRoot, U16_MAX - 2)

InitCeil ==
    /\ roots = (CeilRoot :> [owner |-> "u1",
                             created_at |-> 0,
                             privacy_level |-> 2,
                             context_count |-> U16_MAX - 1,
                             bump |-> BumpOf(CeilRoot)])
    /\ contexts = (CeilContext :> [root_identity |-> CeilRoot,
                                   root_identity_hash |-> NoValue,
                                   encryption_commitment |-> NoValue,
                                   context_type |-> 0,
                                   created_at |-> 0,
                                   max_per_transaction |-> U64_HALF,
                                   total_spent |-> U64_ZERO,
                                   revoked |-> FALSE,
                                   context_index |-> U16_MAX - 2,
                                   bump |-> BumpOf(CeilContext)])
    /\ clock = 0
    /\ emitted = <<>>
    /\ last = Outcome("none", "Ok", FALSE)
    /\ prev = [roots |-> roots, contexts |-> contexts]
    /\ nspend = 0
    /\ created = (CeilContext :> [times |-> 1, commitment |-> NoValue])
    /\ pending = [cl \in Clients |-> NoTx]

SpecCeil == InitCeil /\ [][Next]_vars

(* C8: the counter of a root never wraps.  At context_count = 65535 every  *)
(* create_context and create_context_encrypted under the root ends in an   *)
(* error, and such a call leaves the contexts and the counter as they      *)
(* were; no instruction lowers context_count, which stays within 16 bits;  *)
(* no context address, hence no index under a root, is created twice.       *)

C8_FullRootRefuses ==
    \A r \in DOMAIN roots : roots[r].context_count = U16_MAX =>
        \A u \in Users, c \in ContextAddresses, t \in ContextTypes :
            /\ create_context_result(u, r, c, t) # "Ok"
            /\ \A h \in RootHashes :
                  create_context_encrypted_result(u, r, c, t, h) # "Ok"

C8_Monotone ==
    /\ \A r \in DOMAIN prev.roots :
          /\ r \in DOMAIN roots
          /\ roots[r].context_count >= prev.roots[r].context_count
    /\ \A r \in DOMAIN roots : roots[r].context_count \in 0..U16_MAX
    /\ (/\ last.op \in {"create_context", "create_context_encrypted"}
        /\ last.result # "Ok") => (contexts = prev.contexts /\ roots = prev.roots)

C8_NoIndexTwice ==
    /\ \A c \in DOMAIN created : created[c].times = 1
    /\ \A c \in DOMAIN contexts :
          /\ c = ContextPda(RootOf(c), contexts[c].context_index)
          /\ contexts[c].context_index < roots[RootOf(c)].context_count

C8_CounterNeverWraps == C8_FullRootRefuses /\ C8_Monotone /\ C8_NoIndexTwice

C8_Witness ==
    /\ last.op \in {"create_context", "create_context_encrypted"}
    /\ last.result = "Panic"
    /\ roots[CeilRoot].context_count = U16_MAX
    /\ ContextPda(CeilRoot, U16_MAX) \notin DOMAIN contexts

----------------------------------------------------------------------------
(* Clients racing to create contexts.  A client reads the root's counter,  *)
(* derives the address of the new context from it and builds the           *)
(* transaction; the transaction is executed later, against the accounts as *)
(* they are then.                                                           *)

BuildCreateContext(client, user) ==
    /\ pending[client] = NoTx
    /\ RootPda(user) \in DOMAIN roots
    /\ pending' = [pending EXCEPT ![client] =
                      [user |-> user,
                       root |-> RootPda(user),
                       context |-> NextAddress(RootPda(user))]]
    /\ UNCHANGED <<roots, contexts, clock, emitted, last, prev, nspend, created>>

SendCreateContext(client, context_type, max_per_transaction) ==
    /\ pending[client] # NoTx
    /\ create_context(pending[client].user, pending[client].root,
                      pending[client].context, context_type, max_per_transaction)
    /\ pending' = [pending EXCEPT ![client] = NoTx]

SendCreateContextEncrypted(client, context_type, max_per_transaction, encryption_commitment) ==
    /\ pending[client] # NoTx
    /\ create_context_encrypted(pending[client].user, pending[client].root,
                                pending[client].context, context_type,
                                max_per_transaction,
                                hash_root_identity(pending[client].root),
                                encryption_commitment)
    /\ pending' = [pending EXCEPT ![client] = NoTx]

NextRace ==
    \/ CreateRootIdentityCalls
    \/ \E cl \in Clients, u \in Users : BuildCreateContext(cl, u)
    \/ \E cl \in Clients, t \in ContextTypes, m \in Limits :
            SendCreateContext(cl, t, m)
    \/ \E cl \in Clients, t \in ContextTypes, m \in Limits, k \in CreateCommitments :
            SendCreateContextEncrypted(cl, t, m, k)
    \/ Tick /\ UNCHANGED pending

SpecRace == Init /\ [][NextRace]_vars

(* C9: of two creations built from the same context_count of a root at     *)
(* most one goes through.  No address is created twice; a transaction      *)
(* whose address has been taken meanwhile ends in an error whatever its    *)
(* other inputs; a creation that goes through leaves every existing        *)
(* context as it was; the contexts of a root have pairwise distinct        *)
(* indexes.                                                                 *)

C9_CreatedOnce == \A c \in DOMAIN created : created[c].times = 1

C9_StaleFails ==
    \A cl \in Clients :
        (pending[cl] # NoTx /\ pending[cl].context \in DOMAIN contexts) =>
            \A t \in ContextTypes, h \in RootHashes :
                /\ create_context_result(pending[cl].user, pending[cl].root,
                                         pending[cl].context, t) # "Ok"
                /\ create_context_encrypted_result(pending[cl].user, pending[cl].root,
                                                   pending[cl].context, t, h) # "Ok"

C9_NothingOverwritten ==
    /\ \A c \in DOMAIN prev.contexts :
          c \in DOMAIN contexts /\ contexts[c] = prev.contexts[c]
    /\ (last.op \in {"create_context", "create_context_encrypted"} /\ last.result = "Ok")
          => emitted[1].context_identity \notin DOMAIN prev.contexts

C9_DistinctIndexes ==
    \A c, d \in DOMAIN contexts :
        (RootOf(c) = RootOf(d) /\ contexts[c].context_index = contexts[d].context_index)
            => c = d

C9_OneCreationPerCount ==
    C9_CreatedOnce /\ C9_StaleFails /\ C9_NothingOverwritten /\ C9_DistinctIndexes

C9_Witness ==
    /\ last.op \in {"create_context", "create_context_encrypted"}
    /\ last.result = "Ok"
    /\ \E cl \in Clients :
          /\ pending[cl] # NoTx
          /\ pending[cl].context = emitted[1].context_identity

----------------------------------------------------------------------------
(* C11: only the owner of a root changes it or its contexts.  A signer who *)
(* is not the owner of the root presented to update_privacy_level,         *)
(* create_context, create_context_encrypted, revoke_context or             *)
(* record_spending is refused, and so is an owner who presents their root  *)
(* with a context of another root; the refusal comes from the seeds of the *)
(* accounts (ConstraintSeeds), which are checked before the constraints    *)
(* that carry Unauthorized and ContextMismatch, and it changes nothing.     *)

OwnerOnlyInstructions ==
    {"update_privacy_level", "create_context", "create_context_encrypted",
     "revoke_context", "record_spending"}

\* the outcomes of the five instructions for signer u presenting root r
OutcomesFor(u, r) ==
    {update_privacy_level_result(u, r, p) : p \in PrivacyLevels}
    \cup {create_context_result(u, r, c, t) : c \in ContextAddresses, t \in ContextTypes}
    \cup {create_context_encrypted_result(u, r, c, t, h) :
             c \in ContextAddresses, t \in ContextTypes, h \in RootHashes}
    \cup {revoke_context_result(u, r, c) : c \in DOMAIN contexts}
    \cup {record_spending_result(u, r, c, a) : c \in DOMAIN contexts, a \in Amounts}

\* the outcomes of revoke_context and record_spending for an owner presenting
\* their root with a context of another root
ForeignOutcomesFor(u) ==
    {revoke_context_result(u, RootPda(u), c) :
         c \in {d \in DOMAIN contexts : RootOf(d) # RootPda(u)}}
    \cup {record_spending_result(u, RootPda(u), c, a) :
         c \in {d \in DOMAIN contexts : RootOf(d) # RootPda(u)}, a \in Amounts}

C11_NonOwnerRefused ==
    \A u \in Users : \A r \in DOMAIN roots :
        roots[r].owner # u => OutcomesFor(u, r) = {"ConstraintSeeds"}

C11_ForeignContextRefused ==
    \A u \in Users :
        RootPda(u) \in DOMAIN roots => ForeignOutcomesFor(u) \subseteq {"ConstraintSeeds"}

C11_RefusalChangesNothing ==
    (last.op \in OwnerOnlyInstructions /\ last.result = "ConstraintSeeds")
        => (roots = prev.roots /\ contexts = prev.contexts /\ emitted = <<>>)

----------------------------------------------------------------------------
(* C12: verify_commitment answers only the signer whose own root the       *)
(* context is derived from.  The accounts are accepted exactly when the    *)
(* root presented is the signer's and the context is one of that root;     *)
(* every other caller, with whatever root, gets an error and no answer,    *)
(* even with the stored commitment and the context's address.               *)

HasCommitment(c) == contexts[c].encryption_commitment # NoValue

C12_AcceptedCallers ==
    \A u \in Users, r \in RootAddresses : \A c \in DOMAIN contexts :
        (verify_commitment_result(u, r, c) = "Ok")
            <=> (r = RootPda(u) /\ r \in DOMAIN roots /\ RootOf(c) = r)

C12_OwnerGetsTrue ==
    \A c \in DOMAIN contexts : HasCommitment(c) =>
        /\ roots[RootOf(c)].owner \in Users
        /\ verify_commitment_result(roots[RootOf(c)].owner, RootOf(c), c) = "Ok"
        /\ verify_commitment_value(c, unwrap(contexts[c].encryption_commitment), c)

C12_OthersGetNoAnswer ==
    \A u \in Users : \A c \in DOMAIN contexts :
        roots[RootOf(c)].owner # u =>
            \A r \in RootAddresses :
                verify_commitment_result(u, r, c) \in {"ConstraintSeeds", "AccountNotInitialized"}

C12_VerifyNeedsOwnRoot == C12_AcceptedCallers /\ C12_OwnerGetsTrue /\ C12_OthersGetNoAnswer

\* the claim as stated: whoever calls, with some root, gets true
C12_AnyCallerGetsTrue ==
    \A u \in Users : \A c \in DOMAIN contexts : HasCommitment(c) =>
        \E r \in RootAddresses :
            /\ verify_commitment_result(u, r, c) = "Ok"
            /\ verify_commitment_value(c, unwrap(contexts[c].encryption_commitment), c)

C12_Witness ==
    /\ last.op = "verify_commitment"
    /\ last.result \in {"ConstraintSeeds", "AccountNotInitialized"}
    /\ \E c \in DOMAIN contexts : HasCommitment(c)

----------------------------------------------------------------------------
(* C13: the stored fields of encrypted contexts do not tell whether two of *)
(* them belong to one root.  The record kept for an encrypted context is   *)
(* the record that a creation with the same inputs under any other root    *)
(* would have stored, so that two records of one root look like two        *)
(* records of two roots.                                                    *)

\* what create_context_encrypted under `root` stores, given the inputs and
\* the later history of the record `like`
StoredUnder(root, like) ==
    [new_context_encrypted(root, NextAddress(root), like.context_type,
                           like.max_per_transaction, hash_root_identity(root),
                           unwrap(like.encryption_commitment))
        EXCEPT !.context_index = like.context_index,
               !.created_at = like.created_at,
               !.total_spent = like.total_spent,
               !.revoked = like.revoked,
               !.bump = like.bump]

C13_Unlinkable ==
    \A c \in DOMAIN contexts : IsEncrypted(c) =>
        \A r \in DOMAIN roots : contexts[c] = StoredUnder(r, contexts[c])

----------------------------------------------------------------------------
(* C14: the root address of an encrypted context appears neither in its    *)
(* record nor in an event emitted for it.                                   *)

\* the events of the latest instruction that are about context c
EventsAbout(c) ==
    {emitted[i] : i \in {j \in 1..Len(emitted) :
                            /\ "context_identity" \in DOMAIN emitted[j]
                            /\ emitted[j].context_identity = c}}

C14_RootNeverRevealed ==
    \A c \in DOMAIN contexts : IsEncrypted(c) =>
        /\ contexts[c].root_identity # RootOf(c)
        /\ \A e \in EventsAbout(c) :
              "root_identity" \in DOMAIN e => e.root_identity # RootOf(c)

----------------------------------------------------------------------------
(* C15: every context has exactly one linkage representation.  Either      *)
(* root_identity is the address of its root and root_identity_hash and     *)
(* encryption_commitment are both None, or root_identity is the zero key   *)
(* and both are Some.                                                       *)

PlainLinkage(c) ==
    /\ contexts[c].root_identity = RootOf(c)
    /\ RootOf(c) \in DOMAIN roots
    /\ contexts[c].root_identity_hash = NoValue
    /\ contexts[c].encryption_commitment = NoValue

EncryptedLinkage(c) ==
    /\ contexts[c].root_identity = ZeroPubkey
    /\ contexts[c].root_identity_hash = Some(hash_root_identity(RootOf(c)))
    /\ contexts[c].encryption_commitment # NoValue

C15_OneLinkage ==
    \A c \in DOMAIN contexts :
        /\ PlainLinkage(c) \/ EncryptedLinkage(c)
        /\ ~(PlainLinkage(c) /\ EncryptedLinkage(c))

C15_Witness ==
    \E c, d \in DOMAIN contexts :
        /\ RootOf(c) = RootOf(d)
        /\ PlainLinkage(c)
        /\ EncryptedLinkage(d)

----------------------------------------------------------------------------
(* C17: privacy_level of every root is within 0..4 and context_type of     *)
(* every context within 0..5.  On accounts that are accepted, a level      *)
(* above 4 ends create_root_identity and update_privacy_level with         *)
(* InvalidPrivacyLevel and a type above 5 ends create_context and          *)
(* create_context_encrypted with InvalidContextType; such a call leaves    *)
(* roots and contexts as they were.                                         *)

C17_InRange ==
    /\ \A r \in DOMAIN roots : roots[r].privacy_level \in 0..MAX_PRIVACY_LEVEL
    /\ \A c \in DOMAIN contexts : contexts[c].context_type \in 0..MAX_CONTEXT_TYPE

C17_OutOfRangeRefused ==
    /\ \A u \in Users, r \in RootAddresses : \A p \in PrivacyLevels \ ValidPrivacyLevels :
          /\ CreateRootIdentity(u, r) = "Ok"
                => create_root_identity_result(u, r, p) = "InvalidPrivacyLevel"
          /\ UpdatePrivacyLevel(u, r) = "Ok"
                => update_privacy_level_result(u, r, p) = "InvalidPrivacyLevel"
    /\ \A u \in Users, r \in RootAddresses, c \in ContextAddresses :
          \A t \in ContextTypes \ ValidContextTypes :
              CreateContext(u, r, c) = "Ok" =>
                  /\ create_context_result(u, r, c, t) = "InvalidContextType"
                  /\ \A h \in RootHashes :
                        create_context_encrypted_result(u, r, c, t, h) = "InvalidContextType"

C17_RefusalChangesNothing ==
    last.result \in {"InvalidPrivacyLevel", "InvalidContextType"}
        => (roots = prev.roots /\ contexts = prev.contexts)

C17_RangeValidation == C17_InRange /\ C17_OutOfRangeRefused /\ C17_RefusalChangesNothing

C17_Witness ==
    /\ Did("update_privacy_level", "InvalidPrivacyLevel")
    /\ \E r \in DOMAIN roots : roots[r].privacy_level = MAX_PRIVACY_LEVEL
    /\ \E c \in DOMAIN contexts : contexts[c].context_type = MAX_CONTEXT_TYPE

----------------------------------------------------------------------------
(* C18: check_spending_limit and verify_commitment write nothing.  After   *)
(* either, whatever its outcome, roots and contexts are as before and no   *)
(* event is emitted; on accepted accounts check_spending_limit succeeds    *)
(* exactly when the context is not revoked and the amount is at most       *)
(* max_per_transaction, whatever total_spent is.                            *)

C18_NothingWritten ==
    last.op \in {"check_spending_limit", "verify_commitment"}
        => (roots = prev.roots /\ contexts = prev.contexts /\ emitted = <<>>)

C18_CheckDecides ==
    \A u \in Users, r \in RootAddresses : \A c \in DOMAIN contexts : \A a \in Amounts :
        CheckSpendingLimit(u, r, c) = "Ok" =>
            /\ (check_spending_limit_result(u, r, c, a) = "Ok")
                  <=> (~contexts[c].revoked /\ U64Le(a, contexts[c].max_per_transaction))
            /\ check_spending_limit_result(u, r, c, a) = "ContextRevoked"
                  <=> contexts[c].revoked
            /\ check_spending_limit_result(u, r, c, a)
                  \in {"Ok", "ContextRevoked", "ExceedsTransactionLimit"}

C18_ReadOnly == C18_NothingWritten /\ C18_CheckDecides

C18_Witness ==
    /\ Did("check_spending_limit", "Ok")
    /\ DOMAIN contexts # {}
    /\ \A c \in DOMAIN contexts :
          ~U64Le(contexts[c].total_spent, contexts[c].max_per_transaction)

----------------------------------------------------------------------------
(* The ledger some time after a root and a context were created: u1's      *)
(* root and its first context, both created at time 0, with the clock of   *)
(* the host at MaxClock.                                                    *)

LaterRoot == RootPda("u1")

LaterContext == ContextPda(LaterRoot, 0)

InitLater ==
    /\ roots = (LaterRoot :> [owner |-> "u1",
                              created_at |-> 0,
                              privacy_level |-> 2,
                              context_count |-> 1,
                              bump |-> BumpOf(LaterRoot)])
    /\ contexts = (LaterContext :> [root_identity |-> LaterRoot,
                                    root_identity_hash |-> NoValue,
                                    encryption_commitment |-> NoValue,
                                    context_type |-> 0,
                                    created_at |-> 0,
                                    max_per_transaction |-> U64_HALF,
                                    total_spent |-> U64_ZERO,
                                    revoked |-> FALSE,
                                    context_index |-> 0,
                                    bump |-> BumpOf(LaterContext)])
    /\ clock = MaxClock
    /\ emitted = <<>>
    /\ last = Outcome("none", "Ok", FALSE)
    /\ prev = [roots |-> roots, contexts |-> contexts]
    /\ nspend = 0
    /\ created = (LaterContext :> [times |-> 1, commitment |-> NoValue])
    /\ pending = [cl \in Clients |-> NoTx]

SpecLater == InitLater /\ [][Next]_vars

(* C16: once created, a context changes only in total_spent, through a     *)
(* record_spending that went through, and in revoked, through a            *)
(* revoke_context that went through, which leaves total_spent alone; its   *)
(* other fields stay as created; no context and no root is ever removed,   *)
(* and owner and created_at of a root never change.                         *)

C16_ContextsKept ==
    \A c \in DOMAIN prev.contexts :
        /\ c \in DOMAIN contexts
        /\ contexts[c] = [prev.contexts[c] EXCEPT !.total_spent = contexts[c].total_spent,
                                                  !.revoked = contexts[c].revoked]
        /\ contexts[c].total_spent # prev.contexts[c].total_spent
              => (Did("record_spending", "Ok") /\ contexts[c].revoked = prev.contexts[c].revoked)
        /\ contexts[c].revoked # prev.contexts[c].revoked
              => (/\ Did("revoke_context", "Ok")
                  /\ contexts[c].total_spent = prev.contexts[c].total_spent)

C16_RootsKept ==
    \A r \in DOMAIN prev.roots :
        /\ r \in DOMAIN roots
        /\ roots[r].owner = prev.roots[r].owner
        /\ roots[r].created_at = prev.roots[r].created_at
        /\ roots[r].bump = prev.roots[r].bump

C16_CreatedAtIsPast ==
    /\ \A c \in DOMAIN contexts : contexts[c].created_at <= clock
    /\ contexts[LaterContext].created_at = 0
    /\ roots[LaterRoot].created_at = 0

C16_OnlySpendAndRevoke == C16_ContextsKept /\ C16_RootsKept /\ C16_CreatedAtIsPast

C16_Witness ==
    /\ Did("revoke_context", "Ok")
    /\ contexts[LaterContext].revoked
    /\ contexts[LaterContext].total_spent # U64_ZERO
    /\ contexts[LaterContext].created_at < clock
    /\ roots[LaterRoot].privacy_level = MAX_PRIVACY_LEVEL

----------------------------------------------------------------------------
(* C19: the contexts of a root do not interact.  record_spending and       *)
(* revoke_context on one context leave the root and every other context    *)
(* as they were; for two different contexts of a root, an instruction on   *)
(* one has the outcome it would have had before an instruction on the      *)
(* other, and the two in either order leave the same ledger.                *)

\* the calls on one context: a revocation, or a spending of some amount
ContextCalls == {<<"revoke_context", U64_ZERO>>} \cup {<<"record_spending", a>> : a \in Amounts}

ResultOf(ledger, user, root, context, call) ==
    IF call[1] = "revoke_context"
    THEN revoke_context_result_in(ledger, user, root, context)
    ELSE record_spending_result_in(ledger, user, root, context, call[2])

After(ledger, user, root, context, call) ==
    IF call[1] = "revoke_context"
    THEN revoke_context_after(ledger, user, root, context)
    ELSE record_spending_after(ledger, user, root, context, call[2])

C19_OthersUntouched ==
    (last.op \in {"record_spending", "revoke_context"} /\ last.result = "Ok") =>
        /\ roots = prev.roots
        /\ \A c \in DOMAIN contexts \ {emitted[1].context_identity} :
              c \in DOMAIN prev.contexts /\ contexts[c] = prev.contexts[c]
        /\ LET c == emitted[1].context_identity
               call == IF last.op = "revoke_context"
                       THEN <<"revoke_context", U64_ZERO>>
                       ELSE <<"record_spending", emitted[1].amount>>
           IN  /\ ResultOf(prev, roots[RootOf(c)].owner, RootOf(c), c, call) = "Ok"
               /\ Ledger = After(prev, roots[RootOf(c)].owner, RootOf(c), c, call)

C19_Commute ==
    \A u \in Users : \A a, b \in ContextsOf(RootPda(u)) : a # b =>
        \A x, y \in ContextCalls :
            LET r == RootPda(u) IN
            /\ ResultOf(After(Ledger, u, r, a, x), u, r, b, y) = ResultOf(Ledger, u, r, b, y)
            /\ After(After(Ledger, u, r, a, x), u, r, b, y)
                  = After(After(Ledger, u, r, b, y), u, r, a, x)
            /\ After(Ledger, u, r, a, x).roots = roots
            /\ After(Ledger, u, r, a, x).contexts[b] = contexts[b]

C19_ContextsIndependent == C19_OthersUntouched /\ C19_Commute

C19_Witness ==
    /\ Did("record_spending", "Ok")
    /\ \E a, b \in DOMAIN contexts :
          /\ a # b
          /\ RootOf(a) = RootOf(b)
          /\ contexts[a].revoked
          /\ ~contexts[b].revoked
          /\ contexts[b].total_spent # U64_ZERO
          /\ emitted[1].context_identity = b

----------------------------------------------------------------------------
(* C20: privacy_level of a root bears on no other instruction.  In a       *)
(* ledger that differs from the current one in the privacy_level of one    *)
(* root only, create_context, create_context_encrypted, revoke_context,    *)
(* check_spending_limit, record_spending and verify_commitment have, on    *)
(* every input, the same outcome and leave the same contexts and the same  *)
(* counters; update_privacy_level writes privacy_level and nothing else.    *)

\* the ledger with privacy_level of root r set to p
WithPrivacyLevel(r, p) == [Ledger EXCEPT !.roots[r].privacy_level = p]

\* a ledger with the privacy levels left out
NoPrivacy(ledger) ==
    [ledger EXCEPT !.roots = [r \in DOMAIN ledger.roots |->
                                 [ledger.roots[r] EXCEPT !.privacy_level = 0]]]

C20_SameOutcome(other) ==
    \A u \in Users, r \in RootAddresses, c \in ContextAddresses :
        /\ \A t \in ContextTypes :
              /\ create_context_result_in(other, u, r, c, t)
                    = create_context_result_in(Ledger, u, r, c, t)
              /\ \A h \in RootHashes :
                    create_context_encrypted_result_in(other, u, r, c, t, h)
                        = create_context_encrypted_result_in(Ledger, u, r, c, t, h)
        /\ revoke_context_result_in(other, u, r, c) = revoke_context_result_in(Ledger, u, r, c)
        /\ verify_commitment_result_in(other, u, r, c)
              = verify_commitment_result_in(Ledger, u, r, c)
        /\ c \in DOMAIN contexts =>
              \A k \in Commitments, b \in BindingKeys :
                  verify_commitment_value_in(other, c, k, b)
                      = verify_commitment_value_in(Ledger, c, k, b)
        /\ \A a \in Amounts :
              /\ check_spending_limit_result_in(other, u, r, c, a)
                    = check_spending_limit_result_in(Ledger, u, r, c, a)
              /\ record_spending_result_in(other, u, r, c, a)
                    = record_spending_result_in(Ledger, u, r, c, a)

\* calls that end in an error leave the ledger they were given (C10): the
\* effects to compare are those of the calls that go through
C20_SameEffect(other) ==
    \A u \in Users, r \in RootAddresses, c \in ContextAddresses :
        /\ \A t \in ContextTypes, m \in Limits :
              /\ create_context_result_in(Ledger, u, r, c, t) = "Ok" =>
                    NoPrivacy(create_context_after(other, u, r, c, t, m))
                        = NoPrivacy(create_context_after(Ledger, u, r, c, t, m))
              /\ \A h \in RootHashes, k \in CreateCommitments :
                    create_context_encrypted_result_in(Ledger, u, r, c, t, h) = "Ok" =>
                        NoPrivacy(create_context_encrypted_after(other, u, r, c, t, m, h, k))
                            = NoPrivacy(create_context_encrypted_after(Ledger, u, r, c, t, m, h, k))
        /\ revoke_context_result_in(Ledger, u, r, c) = "Ok" =>
              NoPrivacy(revoke_context_after(other, u, r, c))
                  = NoPrivacy(revoke_context_after(Ledger, u, r, c))
        /\ \A a \in Amounts :
              record_spending_result_in(Ledger, u, r, c, a) = "Ok" =>
                  NoPrivacy(record_spending_after(other, u, r, c, a))
                      = NoPrivacy(record_spending_after(Ledger, u, r, c, a))

C20_OtherLevels ==
    \A r \in DOMAIN roots : \A p \in ValidPrivacyLevels :
        p # roots[r].privacy_level =>
            /\ C20_SameOutcome(WithPrivacyLevel(r, p))
            /\ C20_SameEffect(WithPrivacyLevel(r, p))

C20_UpdateWritesLevelOnly ==
    Did("update_privacy_level", "Ok") =>
        /\ contexts = prev.contexts
        /\ roots = [prev.roots EXCEPT
                       ![emitted[1].root_identity].privacy_level = emitted[1].new_level]
        /\ emitted[1].old_level = prev.roots[emitted[1].root_identity].privacy_level

C20_PrivacyLevelInert == C20_OtherLevels /\ C20_UpdateWritesLevelOnly

C20_Witness ==
    /\ Did("update_privacy_level", "Ok")
    /\ emitted[1].old_level # emitted[1].new_level
    /\ \E c \in ContextsOf(emitted[1].root_identity) :
          ~contexts[c].revoked /\ contexts[c].total_spent # U64_ZERO
    /\ \E c \in ContextsOf(emitted[1].root_identity) : IsEncrypted(c)

====
